---- MODULE Spec2Model ----
(***************************************************************************)
(* Workflow orchestration engine of CodeForge (RedEyeAgent):               *)
(*   workflow-manager  (workflow store, runWorkflow, askForApproval)       *)
(*   agent-manager     (agent registry, executeTask)                       *)
(*   git-utils         (gitCommit, gitPush)                                *)
(* A run of runWorkflow is a process whose position (pc) advances from one *)
(* await / loop iteration to the next.                                     *)
(***************************************************************************)
EXTENDS Integers, Sequences, FiniteSets, TLC

\* ------------------------------------------------------------------ bounds
\* longest user-defined workflow (number of declared steps)
MaxSteps == 3
\* cap on the iterations of the step loop of one run (cyclic next-graphs)
MaxEvals == 4
\* the longest task list passed to orchestrateAgents
MaxTasks == 3

\* ------------------------------------------------------------ basic values
Runs == {1, 2}

\* undefined / empty step id: both are falsy in `while (currentStepId)`
NoStep == ""
\* a step id that no workflow declares
GhostStep == "ghost-step"
\* a workflow id that is never registered
GhostWorkflow == "ghost-workflow"

EmptyMap == [x \in {} |-> x]

\* obj[key] = val on a Record<string, ...>
Put(obj, key, val) ==
  [x \in (DOMAIN obj) \cup {key} |-> IF x = key THEN val ELSE obj[x]]

\* ------------------------------------------------------------- agent side
\* AgentTask.type
TaskTypes ==
  <<"code-generation", "code-review", "testing", "error-fixing", "refactoring", "langgraph">>

\* DEFAULT_CONFIG: every agent enabled, autoCommit false, requireApproval true
DEFAULT_CONFIG ==
  [agents |-> {"codeGeneration", "codeReview", "errorFixing", "refactoring", "testing", "langgraph"},
   autoCommit |-> FALSE, requireApproval |-> TRUE]

\* configurations a config file can load (enabled agents, workflow flags)
ConfigChoices ==
  { DEFAULT_CONFIG,
    [agents |-> {"codeGeneration", "errorFixing", "refactoring", "testing", "langgraph"},
     autoCommit |-> TRUE, requireApproval |-> FALSE],
    [agents |-> {"codeReview", "langgraph"},
     autoCommit |-> FALSE, requireApproval |-> FALSE] }

\* setupAgents: one agent per enabled configuration entry, langgraph always
setupAgents(cfg) ==
  (cfg.agents \cap {"codeGeneration", "codeReview", "errorFixing", "refactoring", "testing"})
    \cup {"langgraph"}

\* slip: reviews fall back to the code generation agent
AgentKeyFallback(type) ==
  CASE type = "code-generation" -> "codeGeneration"
    [] type = "code-review"     -> "codeGeneration"
    [] type = "error-fixing"    -> "errorFixing"
    [] type = "refactoring"     -> "refactoring"
    [] type = "testing"         -> "testing"
    [] type = "langgraph"       -> "langgraph"
    [] OTHER                    -> ""

\* the switch of executeTask: task type -> registry key ("" in the default branch)
AgentKey(type) ==
  CASE type = "code-generation" -> "codeGeneration"
    [] type = "code-review"     -> "codeReview"
    [] type = "error-fixing"    -> "errorFixing"
    [] type = "refactoring"     -> "refactoring"
    [] type = "testing"         -> "testing"
    [] type = "langgraph"       -> "langgraph"
    [] OTHER                    -> ""

\* AgentResult as the engine reads it: success flag, error populated or not
OkResult   == [success |-> TRUE,  error |-> ""]
FailResult == [success |-> FALSE, error |-> "task failed"]

\* what agent.executeTask can do: resolve with a Result, or reject
WorkerOutcomes ==
  { [kind |-> "result", result |-> OkResult,   error |-> ""],
    [kind |-> "result", result |-> FailResult, error |-> ""],
    [kind |-> "throw",  result |-> FailResult, error |-> "worker threw"] }

\* getAgent + executeTask: the outcomes of `await executeTask(task, context)`
\* for a task of the given type under registry `registry`
executeTask(type, registry) ==
  IF AgentKey(type) = ""
    THEN { [kind |-> "throw", result |-> FailResult, error |-> "Unknown task type"] }
  ELSE IF AgentKey(type) \notin registry
    THEN { [kind |-> "throw", result |-> FailResult, error |-> "Agent not found"] }
  ELSE WorkerOutcomes

\* ---------------------------------------------------------- workflow data
NoNext           == [kind |-> "none",     id |-> NoStep, on |-> NoStep, else |-> NoStep]
Static(id)       == [kind |-> "static",   id |-> id,     on |-> NoStep, else |-> NoStep]
\* next: ctx => ctx.results[on]?.success ? id : else
Computed(on, id, else) == [kind |-> "computed", id |-> id, on |-> on, else |-> else]

\* step.condition: absent, ctx => false, ctx => !!ctx.results[on]?.success
NoCondition   == [kind |-> "none",      on |-> NoStep]
Never         == [kind |-> "never",     on |-> NoStep]
Succeeded(on) == [kind |-> "succeeded", on |-> on]

\* a step; its task template starts with `input: {}`
MkStep(id, name, type, cond, next) ==
  [id |-> id, name |-> name, type |-> type, input |-> EmptyMap,
   condition |-> cond, next |-> next]

\* loadBuiltInWorkflows: four linear three-step workflows
Linear3(wid, wname, wdesc, i1, n1, t1, i2, n2, t2, i3, n3, t3) ==
  [id |-> wid, name |-> wname, description |-> wdesc,
   steps |-> << MkStep(i1, n1, t1, NoCondition, Static(i2)),
                MkStep(i2, n2, t2, NoCondition, Static(i3)),
                MkStep(i3, n3, t3, NoCondition, NoNext) >>]

BuiltInWorkflows ==
  { Linear3("code-generation", "Code Generation", "Generate code based on a description",
            "generate-code", "Generate Code", "code-generation",
            "review-code", "Review Code", "code-review",
            "save-code", "Save Code", "code-generation"),
    Linear3("bug-fixing", "Bug Fixing", "Fix a bug in the code",
            "analyze-bug", "Analyze Bug", "code-review",
            "fix-bug", "Fix Bug", "error-fixing",
            "test-fix", "Test Fix", "testing"),
    Linear3("code-refactoring", "Code Refactoring", "Refactor code to improve its quality",
            "analyze-code", "Analyze Code", "code-review",
            "refactor-code", "Refactor Code", "refactoring",
            "test-refactoring", "Test Refactoring", "testing"),
    Linear3("langgraph-code-generation", "LangGraph Code Generation",
            "Generate and validate Python code using LangGraph",
            "generate-code", "Generate Code", "langgraph",
            "review-code", "Review Code", "code-review",
            "save-code", "Save Code", "code-generation") }

\* ------------------------- workflows registered besides the built-in ones
StepId(i)   == "s" \o ToString(i)
StepName(i) == "Step " \o ToString(i)
TypeAt(i)   == TaskTypes[((i - 1) % Len(TaskTypes)) + 1]

\* the declared successor of step i in an n-step chain
ChainNext(n, i) == IF i < n THEN Static(StepId(i + 1)) ELSE NoNext

ChainStep(n, i) == MkStep(StepId(i), StepName(i), TypeAt(i), NoCondition, ChainNext(n, i))

\* a chain of n steps, no conditions, each step pointing at the next declared one
Chain(n) ==
  [id |-> "chain", name |-> "Chain", description |-> "a chain",
   steps |-> [i \in 1..n |-> ChainStep(n, i)]]

\* the next selectors tried on step p of an n-step workflow
NextChoices(n, p) ==
  {NoNext, Static(GhostStep)}
    \cup { Static(StepId(i)) : i \in 1..n }
    \cup { Computed(StepId(p), ChainNext(n, p).id, StepId(1)),
           Computed(StepId(1), StepId(n), GhostStep) }

ConditionChoices == {NoCondition, Never, Succeeded(StepId(1))}

\* Chain(n) with step p given condition c and next selector x
Variant(n, p, c, x) ==
  [id |-> "variant", name |-> "Variant", description |-> "a chain with one special step",
   steps |-> [i \in 1..n |->
               IF i = p THEN MkStep(StepId(i), StepName(i), TypeAt(i), c, x)
                        ELSE ChainStep(n, i)]]

\* Chain(n) with step p given a task type no switch case of executeTask knows
UnknownType(n, p) ==
  [id |-> "unknown-type", name |-> "Unknown Type", description |-> "a chain with an unknown task type",
   steps |-> [i \in 1..n |->
               IF i = p THEN MkStep(StepId(i), StepName(i), "deploy", NoCondition, ChainNext(n, i))
                        ELSE ChainStep(n, i)]]

\* s1 -> s2 -> (s1 succeeded ? s3 : s4), s3 and s4 terminal
Branching ==
  [id |-> "branching", name |-> "Branching", description |-> "a two-way branch",
   steps |-> << MkStep(StepId(1), StepName(1), TypeAt(1), NoCondition, Static(StepId(2))),
                MkStep(StepId(2), StepName(2), TypeAt(2), NoCondition,
                       Computed(StepId(1), StepId(3), StepId(4))),
                MkStep(StepId(3), StepName(3), TypeAt(3), NoCondition, NoNext),
                MkStep(StepId(4), StepName(4), TypeAt(4), NoCondition, NoNext) >>]

\* the workflows a caller of registerWorkflow (or, for those without
\* functions, a *.json file of the workflows directory) may define
UserWorkflows ==
  UNION { { Chain(n) }
            \cup { Variant(n, p, c, x) : <<p, c, x>> \in
                     { t \in (1..n) \X ConditionChoices \X
                              UNION { NextChoices(n, q) : q \in 1..n } :
                         t[3] \in NextChoices(n, t[1]) } }
            \cup { UnknownType(n, p) : p \in 1..n }
          : n \in 1..MaxSteps }
    \cup { Branching }

\* -------------------------------------------------------------- the state
VARIABLES
  config,           \* loaded configuration
  agents,           \* agent registry: the registered keys
  workflows,        \* workflow store: id -> Workflow
  approver,         \* who answers askForApproval: "builtin" or "user"
  files,            \* workflows directory: file name (workflow id) -> content
  create,           \* the createWorkflow call: position, argument, outcome
  request,          \* per run: the arguments workflowId and input
  pc,               \* per run: position in runWorkflow
  workflow,         \* per run: const workflow
  workflowOptions,  \* per run: const workflowOptions
  currentStepId,    \* per run: let currentStepId
  context,          \* per run: context.results
  results,          \* per run: const results
  outcome,          \* per run: what the caller of runWorkflow received
  evals,            \* per run: iterations of the step loop that found a step
  calls,            \* per run: step ids passed to executeTask, in call order
  tasks,            \* per run: the tasks passed to executeTask, in call order
  completed,        \* per run: [id, result] of every executeTask that resolved
  skipped,          \* per run: step ids skipped on a false condition
  approvals,        \* per run: step ids askForApproval was called for
  answers,          \* per run: the answers askForApproval gave
  nextCalls,        \* per run: invocations of a computed next
  hookCalls,        \* per run: "commit" / "push" calls
  hookFailed,       \* per run: gitCommit or gitPush threw (caught and logged)
  gitStatus,        \* per run: what getStatus gave gitCommit ("none" before the call)
  invoked,          \* per run: the agent.executeTask calls made: step, registry key, reply
  cancelRequested,  \* per run: the caller wants the run cancelled
  boot,             \* the initializeWorkflows call: position, directory listing, report
  orch              \* the orchestrateAgents call: position, tasks, results, context

vars == << config, agents, workflows, approver, files, create, request, pc, workflow,
           workflowOptions, currentStepId, context, results, outcome, evals, calls, tasks,
           completed, skipped, approvals, answers, nextCalls, hookCalls, hookFailed,
           gitStatus, invoked, cancelRequested, boot, orch >>

\* what no run of runWorkflow writes
globals == << config, agents, workflows, approver, files, create, cancelRequested, boot, orch >>

\* the run input: undefined, or an object
NoInput   == [defined |-> FALSE, fields |-> EmptyMap]
Input(obj) == [defined |-> TRUE, fields |-> obj]
NoRequest == [workflowId |-> "", input |-> NoInput]

NoWorkflow == [id |-> "", name |-> "", description |-> "", steps |-> <<>>]
NoOutcome  == [kind |-> "pending", value |-> <<>>, error |-> ""]
Returned(v) == [kind |-> "returned", value |-> v, error |-> ""]
Thrown(e)   == [kind |-> "thrown", value |-> <<>>, error |-> e]

\* createWorkflow not called
NoCreate ==
  [pc |-> "idle", workflow |-> NoWorkflow, outcome |-> "none", overwritten |-> FALSE]

\* slip: the store is keyed by the workflow's name
registerWorkflowByName(store, w) == Put(store, w.name, w)

\* workflows[workflow.id] = workflow
registerWorkflow(store, w) == Put(store, w.id, w)

\* registerWorkflow for each of a set of definitions with distinct ids
RECURSIVE RegisterAll(_, _)
RegisterAll(store, ws) ==
  IF ws = {} THEN store
  ELSE LET w == CHOOSE x \in ws : TRUE
       IN RegisterAll(registerWorkflow(store, w), ws \ {w})

InitRuns(active) ==
  /\ pc = [r \in Runs |-> IF r \in active THEN "idle" ELSE "off"]
  /\ request = [r \in Runs |-> NoRequest]
  /\ tasks = [r \in Runs |-> <<>>]
  /\ workflow = [r \in Runs |-> NoWorkflow]
  /\ workflowOptions = [r \in Runs |-> [autoCommit |-> FALSE, requireApproval |-> FALSE]]
  /\ currentStepId = [r \in Runs |-> NoStep]
  /\ context = [r \in Runs |-> EmptyMap]
  /\ results = [r \in Runs |-> <<>>]
  /\ outcome = [r \in Runs |-> NoOutcome]
  /\ evals = [r \in Runs |-> 0]
  /\ calls = [r \in Runs |-> <<>>]
  /\ completed = [r \in Runs |-> <<>>]
  /\ skipped = [r \in Runs |-> <<>>]
  /\ approvals = [r \in Runs |-> <<>>]
  /\ answers = [r \in Runs |-> <<>>]
  /\ nextCalls = [r \in Runs |-> <<>>]
  /\ hookCalls = [r \in Runs |-> <<>>]
  /\ hookFailed = [r \in Runs |-> FALSE]
  /\ gitStatus = [r \in Runs |-> "none"]
  /\ invoked = [r \in Runs |-> <<>>]
  /\ cancelRequested = [r \in Runs |-> FALSE]

\* initializeWorkflows and orchestrateAgents are not being called
NoBoot == [pc |-> "off", listing |-> <<>>, index |-> 0, reported |-> FALSE, ioError |-> FALSE]
NoOrch == [pc |-> "off", tasks |-> <<>>, index |-> 0, results |-> <<>>,
           context |-> EmptyMap, error |-> "", calls |-> <<>>, replies |-> <<>>]
InitIdle == boot = NoBoot /\ orch = NoOrch

\* after startup: config loaded, agents set up, the built-in workflows and at
\* most one further workflow registered; one run about to be requested
Init ==
  /\ config \in ConfigChoices
  /\ agents = setupAgents(config)
  /\ \E extra \in {{}} \cup { {w} : w \in UserWorkflows } :
       workflows = RegisterAll(RegisterAll(EmptyMap, BuiltInWorkflows), extra)
  /\ approver \in {"builtin", "user"}
  /\ files = EmptyMap
  /\ create = NoCreate
  /\ InitIdle
  /\ InitRuns({1})

\* ------------------------------------------------- runWorkflow, statement by statement
\* slip: the locals of runWorkflow are module-level variables, one copy for all runs
UpdShared(f, r, v) == [x \in DOMAIN f |-> v]

\* run r assigns v to its own copy of a local
Upd(f, r, v) == [f EXCEPT ![r] = v]

\* options?.x !== undefined ? options.x : config.workflow.x
OptionChoices ==
  UNION { [keys -> BOOLEAN] : keys \in SUBSET {"autoCommit", "requireApproval"} }

Resolve(options, key, cfg) == IF key \in DOMAIN options THEN options[key] ELSE cfg[key]

ResolveOptions(options, cfg) ==
  [autoCommit |-> Resolve(options, "autoCommit", cfg),
   requireApproval |-> Resolve(options, "requireApproval", cfg)]

\* workflow.steps.find((s) => s.id === id): index of the first match, 0 if none
Find(steps, id) ==
  IF \E i \in 1..Len(steps) : steps[i].id = id
    THEN CHOOSE i \in 1..Len(steps) :
           /\ steps[i].id = id
           /\ \A j \in 1..(i - 1) : steps[j].id # id
    ELSE 0

\* condition(context) for the condition functions of the workflows above
ConditionHolds(cond, ctx) ==
  CASE cond.kind = "never"     -> FALSE
    [] cond.kind = "succeeded" -> cond.on \in DOMAIN ctx /\ ctx[cond.on].success
    [] OTHER                   -> TRUE

\* slip: the negation is lost, a step is skipped when its condition holds
ConditionFailsNoNegation(step, ctx) ==
  step.condition.kind # "none" /\ ConditionHolds(step.condition, ctx)

\* step.condition && !step.condition(context)  (TRUE: the step is skipped)
ConditionFails(step, ctx) ==
  step.condition.kind # "none" /\ ~ConditionHolds(step.condition, ctx)

\* slip: the result is filed under the step's name
RecordResultByName(ctx, step, result) == Put(ctx, step.name, result)

\* context.results[step.id] = result
RecordResult(ctx, step, result) == Put(ctx, step.id, result)

\* slip: the gate opens on success
NeedsApprovalOnSuccess(result, options) == result.success /\ options.requireApproval

\* slip: the gate ignores the requireApproval option
NeedsApprovalIgnoresOption(result, options) == ~result.success

\* !result.success && workflowOptions.requireApproval
\* slip: the approval gate is lost
NeedsApprovalNever(result, options) == FALSE

\* !result.success && workflowOptions.requireApproval
NeedsApproval(result, options) == ~result.success /\ options.requireApproval

\* slip: a next that is not a function is dropped
NextStepIdOnlyComputed(step, ctx) ==
  IF step.next.kind = "computed"
    THEN IF step.next.on \in DOMAIN ctx /\ ctx[step.next.on].success
           THEN step.next.id ELSE step.next.else
    ELSE NoStep

\* slip: the next is never read, the loop stays on the step it is at
NextStepIdStays(step, ctx) == step.id

\* slip: the branches of a computed next are swapped
NextStepIdSwapped(step, ctx) ==
  CASE step.next.kind = "none"     -> NoStep
    [] step.next.kind = "static"   -> step.next.id
    [] step.next.kind = "computed" ->
         IF step.next.on \in DOMAIN ctx /\ ctx[step.next.on].success
           THEN step.next.else ELSE step.next.id

\* typeof step.next === "function" ? step.next(context) : step.next
NextStepId(step, ctx) ==
  CASE step.next.kind = "none"     -> NoStep
    [] step.next.kind = "static"   -> step.next.id
    [] step.next.kind = "computed" ->
         IF step.next.on \in DOMAIN ctx /\ ctx[step.next.on].success
           THEN step.next.id ELSE step.next.else

\* slip: the spreads are swapped, the template wins on a collision
MergeInputTemplateWins(template, input) ==
  [k \in (DOMAIN template) \cup (DOMAIN input.fields) |->
     IF k \in DOMAIN template THEN template[k] ELSE input.fields[k]]

\* { ...step.task.input, ...input }
MergeInput(template, input) ==
  [k \in (DOMAIN template) \cup (DOMAIN input.fields) |->
     IF k \in DOMAIN input.fields THEN input.fields[k] ELSE template[k]]

\* executeTask up to its await: the switch picks the registry key, getAgent
\* looks it up, agent.executeTask is called once on the agent found
NoReply == [kind |-> "pending", result |-> FailResult, error |-> ""]
CallAgent(log, id, type, registry) ==
  IF AgentKey(type) # "" /\ AgentKey(type) \in registry
    THEN Append(log, [id |-> id, key |-> AgentKey(type), reply |-> NoReply])
    ELSE log

\* agent.executeTask settles with reply o
AgentReplied(log, o) ==
  IF log # <<>> /\ log[Len(log)].reply = NoReply
    THEN [log EXCEPT ![Len(log)].reply = o]
    ELSE log

\* the record kept of an invocation of a computed next: the step, the context
\* passed, the dispatches settled so far, whether the step itself was dispatched
NextCall(r, step, ctx, done, dispatched) ==
  IF step.next.kind = "computed"
    THEN Append(nextCalls[r],
                [step |-> step.id, ctx |-> ctx, done |-> done, dispatched |-> dispatched])
    ELSE nextCalls[r]

\* slip: the run stops when the user approves
StopsOnApproved(shouldContinue) == shouldContinue

\* if (!shouldContinue) break
StopsOn(shouldContinue) == ~shouldContinue

\* slip: the built-in callback asks and may be told no
askForApprovalPrompting == BOOLEAN

\* askForApproval as written: logs the message and returns true
askForApproval == {TRUE}

\* the Approval Callback once it really prompts the user: either answer
promptUser == BOOLEAN

\* the answers `await askForApproval(...)` can give
ApprovalAnswers(who) == IF who = "builtin" THEN askForApproval ELSE promptUser

\* git-utils: gitCommit returns early on an empty status, throws when any
\* command fails; gitPush throws when any command fails
GitOutcomes == {"ok", "fail"}
\* slip: nothing to commit is treated as an error
gitCommitThrowsOnClean(status, stage, commit) ==
  IF status = "fail" THEN "throw"
  ELSE IF status = "clean" THEN "throw"
  ELSE IF stage = "fail" THEN "throw"
  ELSE IF commit = "fail" THEN "throw"
  ELSE "return"

gitCommit(status, stage, commit) ==
  IF status = "fail" THEN "throw"
  ELSE IF status = "clean" THEN "return"
  ELSE IF stage = "fail" THEN "throw"
  ELSE IF commit = "fail" THEN "throw"
  ELSE "return"

gitPush(branch, push) ==
  IF branch = "fail" THEN "throw"
  ELSE IF push = "fail" THEN "throw"
  ELSE "return"

\* lines 380-393: after the loop, commit when autoCommit is set, else return
AfterLoop(r) ==
  IF workflowOptions[r].autoCommit
    THEN /\ hookCalls' = Upd(hookCalls, r, Append(hookCalls[r], "commit"))
         /\ pc' = Upd(pc, r, "commit")
         /\ UNCHANGED outcome
    ELSE /\ pc' = Upd(pc, r, "done")
         /\ outcome' = Upd(outcome, r, Returned(results[r]))
         /\ UNCHANGED hookCalls

\* slip: the catch swallows the error and returns what was collected
FailReturnsResults(r, error) ==
  /\ pc' = Upd(pc, r, "done")
  /\ outcome' = Upd(outcome, r, Returned(results[r]))

\* lines 394-397: catch, log, rethrow
Fail(r, error) ==
  /\ pc' = Upd(pc, r, "failed")
  /\ outcome' = Upd(outcome, r, Thrown(error))

\* slip: no try/catch around the hook, its error reaches the outer catch
AfterHookRethrows(r, threw) ==
  /\ hookFailed' = Upd(hookFailed, r, threw)
  /\ IF threw THEN Fail(r, "Failed to commit changes")
     ELSE /\ pc' = Upd(pc, r, "done")
          /\ outcome' = Upd(outcome, r, Returned(results[r]))

\* lines 388-393: a throwing hook is caught and logged; the results are returned
AfterHook(r, threw) ==
  /\ pc' = Upd(pc, r, "done")
  /\ outcome' = Upd(outcome, r, Returned(results[r]))
  /\ hookFailed' = Upd(hookFailed, r, threw)


\* slip: an unknown id falls back to the code-generation workflow
getWorkflowOrDefault(store, id) ==
  IF id \in DOMAIN store THEN [found |-> TRUE, workflow |-> store[id]]
  ELSE IF "code-generation" \in DOMAIN store
    THEN [found |-> TRUE, workflow |-> store["code-generation"]]
  ELSE [found |-> FALSE, workflow |-> NoWorkflow]

\* getWorkflow: workflows[id], or throw when there is none
getWorkflow(store, id) ==
  IF id \in DOMAIN store THEN [found |-> TRUE, workflow |-> store[id]]
                         ELSE [found |-> FALSE, workflow |-> NoWorkflow]

\* lines 295-311 for a call runWorkflow(workflowId, input, options) with input
\* among `inputs` and options among `optionSets`: getWorkflow, default
\* options, call analyzeCodebase
StartCall(r, inputs, optionSets) ==
  /\ pc[r] = "idle"
  /\ \E workflowId \in (DOMAIN workflows) \cup {GhostWorkflow},
        input \in inputs, options \in optionSets :
       /\ request' = Upd(request, r, [workflowId |-> workflowId, input |-> input])
       /\ IF ~getWorkflow(workflows, workflowId).found
            THEN /\ Fail(r, "Workflow not found")
                 /\ UNCHANGED << workflow, workflowOptions >>
            ELSE /\ workflow' = Upd(workflow, r, getWorkflow(workflows, workflowId).workflow)
                 /\ workflowOptions' = Upd(workflowOptions, r, ResolveOptions(options, config))
                 /\ pc' = Upd(pc, r, "analyze")
                 /\ UNCHANGED outcome
  /\ UNCHANGED << globals, gitStatus, invoked, tasks, currentStepId, context, results, evals, calls, completed,
                  skipped, approvals, answers, nextCalls, hookCalls, hookFailed >>

\* a call with an input among `inputs` and any options
StartWith(r, inputs) == StartCall(r, inputs, OptionChoices)

\* runWorkflow(name), as the `workflow` command calls it: no input
Start(r) == StartWith(r, {NoInput})

\* the inputs the chat passes: none, an empty object, objects with fields
RunInputs ==
  { NoInput, Input(EmptyMap), Input("file" :> "main.ts"),
    Input(("file" :> "main.ts") @@ ("mode" :> "strict")) }

\* runWorkflow(workflowId, input, options), as the chat calls it
StartWithInput(r) == StartWith(r, RunInputs)

\* lines 311-330: analyzeCodebase resolves or rejects; context, first step id
Analyzed(r) ==
  /\ pc[r] = "analyze"
  /\ \E analysis \in GitOutcomes :
       IF analysis = "fail"
         THEN /\ Fail(r, "analyzeCodebase threw")
              /\ UNCHANGED << currentStepId, context, results >>
       ELSE IF Len(workflow[r].steps) = 0
         THEN /\ Fail(r, "TypeError: steps[0] is undefined")
              /\ UNCHANGED << currentStepId, context, results >>
       ELSE /\ context' = Upd(context, r, EmptyMap)
            /\ results' = Upd(results, r, <<>>)
            /\ currentStepId' = Upd(currentStepId, r, workflow[r].steps[1].id)
            /\ pc' = Upd(pc, r, "loop")
            /\ UNCHANGED outcome
  /\ UNCHANGED << globals, gitStatus, invoked, request, tasks, workflow, workflowOptions, evals, calls, completed,
                  skipped, approvals, answers, nextCalls, hookCalls, hookFailed >>

\* slip: an id that matches no step is an error
LoopExitStrict(r) ==
  /\ pc[r] = "loop"
  /\ \/ currentStepId[r] = NoStep
     \/ Find(workflow[r].steps, currentStepId[r]) = 0
  /\ IF currentStepId[r] = NoStep
       THEN AfterLoop(r)
       ELSE /\ Fail(r, "Step not found")
            /\ UNCHANGED hookCalls
  /\ UNCHANGED << globals, gitStatus, invoked, request, tasks, workflow, workflowOptions, currentStepId, context, results,
                  evals, calls, completed, skipped, approvals, answers, nextCalls, hookFailed >>

\* lines 332-334, 380-393: the loop ends (falsy id, or no step has that id)
LoopExit(r) ==
  /\ pc[r] = "loop"
  /\ \/ currentStepId[r] = NoStep
     \/ Find(workflow[r].steps, currentStepId[r]) = 0
  /\ AfterLoop(r)
  /\ UNCHANGED << globals, gitStatus, invoked, request, tasks, workflow, workflowOptions, currentStepId, context, results,
                  evals, calls, completed, skipped, approvals, answers, nextCalls, hookFailed >>

\* lines 338-350: the condition is not met, the step is skipped
SkipStep(r) ==
  /\ pc[r] = "loop"
  /\ currentStepId[r] # NoStep
  /\ Find(workflow[r].steps, currentStepId[r]) # 0
  /\ evals[r] < MaxEvals
  /\ LET step == workflow[r].steps[Find(workflow[r].steps, currentStepId[r])]
     IN /\ ConditionFails(step, context[r])
        /\ skipped' = Upd(skipped, r, Append(skipped[r], step.id))
        /\ nextCalls' = Upd(nextCalls, r, NextCall(r, step, context[r], completed[r], FALSE))
        /\ currentStepId' = Upd(currentStepId, r, NextStepId(step, context[r]))
  /\ evals' = Upd(evals, r, evals[r] + 1)
  /\ UNCHANGED << globals, gitStatus, invoked, request, tasks, pc, workflow, workflowOptions, context, results, outcome,
                  calls, completed, approvals, answers, hookCalls, hookFailed >>

\* slip: executeTask is not awaited, the loop goes on at once
DispatchStepNoAwait(r) ==
  /\ pc[r] = "loop"
  /\ currentStepId[r] # NoStep
  /\ Find(workflow[r].steps, currentStepId[r]) # 0
  /\ evals[r] < MaxEvals
  /\ LET step == workflow[r].steps[Find(workflow[r].steps, currentStepId[r])]
     IN /\ ~ConditionFails(step, context[r])
        /\ calls' = Upd(calls, r, Append(calls[r], step.id))
        /\ tasks' = Upd(tasks, r, Append(tasks[r],
                          [id |-> step.id, type |-> step.type,
                           input |-> MergeInput(step.input, request[r].input)]))
        /\ invoked' = Upd(invoked, r, CallAgent(invoked[r], step.id, step.type, agents))
        /\ currentStepId' = Upd(currentStepId, r, NextStepId(step, context[r]))
  /\ evals' = Upd(evals, r, evals[r] + 1)
  /\ UNCHANGED << globals, gitStatus, request, pc, workflow, workflowOptions, context, results,
                  outcome, completed, skipped, approvals, answers, nextCalls, hookCalls, hookFailed >>

\* lines 352-356: the step is dispatched through executeTask
DispatchStep(r) ==
  /\ pc[r] = "loop"
  /\ currentStepId[r] # NoStep
  /\ Find(workflow[r].steps, currentStepId[r]) # 0
  /\ evals[r] < MaxEvals
  /\ LET step == workflow[r].steps[Find(workflow[r].steps, currentStepId[r])]
     IN /\ ~ConditionFails(step, context[r])
        /\ calls' = Upd(calls, r, Append(calls[r], step.id))
        /\ tasks' = Upd(tasks, r, Append(tasks[r],
                          [id |-> step.id, type |-> step.type,
                           input |-> MergeInput(step.input, request[r].input)]))
        /\ invoked' = Upd(invoked, r, CallAgent(invoked[r], step.id, step.type, agents))
  /\ evals' = Upd(evals, r, evals[r] + 1)
  /\ pc' = Upd(pc, r, "task")
  /\ UNCHANGED << globals, gitStatus, request, workflow, workflowOptions, currentStepId, context, results,
                  outcome, completed, skipped, approvals, answers, nextCalls, hookCalls, hookFailed >>

\* lines 356-377: executeTask settles; record, approval gate, next step
TaskSettled(r) ==
  /\ pc[r] = "task"
  /\ LET step == workflow[r].steps[Find(workflow[r].steps, currentStepId[r])]
     IN \E o \in executeTask(step.type, agents) :
          /\ invoked' = Upd(invoked, r, AgentReplied(invoked[r], o))
          /\ IF o.kind = "throw"
            THEN /\ Fail(r, o.error)
                 /\ UNCHANGED << currentStepId, context, results, completed,
                                 approvals, nextCalls >>
            ELSE LET ctx == RecordResult(context[r], step, o.result)
                     done == Append(completed[r], [id |-> step.id, result |-> o.result])
                 IN /\ context' = Upd(context, r, ctx)
                    /\ results' = Upd(results, r,
                                      Append(results[r], [step |-> step.name, result |-> o.result]))
                    /\ completed' = Upd(completed, r, done)
                    /\ UNCHANGED outcome
                    /\ IF NeedsApproval(o.result, workflowOptions[r])
                         THEN /\ approvals' = Upd(approvals, r, Append(approvals[r], step.id))
                              /\ pc' = Upd(pc, r, "approval")
                              /\ UNCHANGED << currentStepId, nextCalls >>
                         ELSE /\ nextCalls' = Upd(nextCalls, r, NextCall(r, step, ctx, done, TRUE))
                              /\ currentStepId' = Upd(currentStepId, r, NextStepId(step, ctx))
                              /\ pc' = Upd(pc, r, "loop")
                              /\ UNCHANGED approvals
  /\ UNCHANGED << globals, gitStatus, request, tasks, workflow, workflowOptions, evals, calls,
                  skipped, answers, hookCalls, hookFailed >>

\* lines 364-377: askForApproval answers; break, or go on to the next step
ApprovalAnswered(r) ==
  /\ pc[r] = "approval"
  /\ LET step == workflow[r].steps[Find(workflow[r].steps, currentStepId[r])]
     IN \E shouldContinue \in ApprovalAnswers(approver) :
          /\ answers' = Upd(answers, r, Append(answers[r], shouldContinue))
          /\ IF StopsOn(shouldContinue)
               THEN /\ AfterLoop(r)
                    /\ UNCHANGED << currentStepId, nextCalls >>
               ELSE /\ nextCalls' = Upd(nextCalls, r,
                                        NextCall(r, step, context[r], completed[r], TRUE))
                    /\ currentStepId' = Upd(currentStepId, r, NextStepId(step, context[r]))
                    /\ pc' = Upd(pc, r, "loop")
                    /\ UNCHANGED << outcome, hookCalls >>
  /\ UNCHANGED << globals, gitStatus, invoked, request, tasks, workflow, workflowOptions, context, results, evals, calls,
                  completed, skipped, approvals, hookFailed >>

\* lines 385-393: gitCommit settles; push, or catch and return
CommitSettled(r) ==
  /\ pc[r] = "commit"
  /\ \E status \in {"clean", "dirty", "fail"}, stage \in GitOutcomes, commit \in GitOutcomes :
       /\ gitStatus' = Upd(gitStatus, r, status)
       /\ IF gitCommit(status, stage, commit) = "return"
            THEN /\ hookCalls' = Upd(hookCalls, r, Append(hookCalls[r], "push"))
                 /\ pc' = Upd(pc, r, "push")
                 /\ UNCHANGED << outcome, hookFailed >>
            ELSE /\ AfterHook(r, TRUE)
                 /\ UNCHANGED hookCalls
  /\ UNCHANGED << globals, invoked, request, tasks, workflow, workflowOptions, currentStepId, context, results,
                  evals, calls, completed, skipped, approvals, answers, nextCalls >>

\* lines 386-393: gitPush settles; either way the results are returned
PushSettled(r) ==
  /\ pc[r] = "push"
  /\ \E branch \in GitOutcomes, push \in GitOutcomes :
       AfterHook(r, gitPush(branch, push) = "throw")
  /\ UNCHANGED << globals, gitStatus, invoked, request, tasks, workflow, workflowOptions, currentStepId, context, results,
                  evals, calls, completed, skipped, approvals, answers, nextCalls, hookCalls >>

Next ==
  \E r \in Runs :
    \/ Start(r)
    \/ Analyzed(r)
    \/ LoopExit(r)
    \/ SkipStep(r)
    \/ DispatchStep(r)
    \/ TaskSettled(r)
    \/ ApprovalAnswered(r)
    \/ CommitSettled(r)
    \/ PushSettled(r)

Spec == Init /\ [][Next]_vars

\* every awaited call (analyzeCodebase, agent, approval, git) settles and the
\* continuation of the run is then scheduled
\* no step of w has a function for its next
AllStatic(w) == \A i \in 1..Len(w.steps) : w.steps[i].next.kind # "computed"

\* after startup with the default configuration: the built-in workflows and at
\* most one user workflow, all of whose nexts are static ids or absent
InitFair ==
  /\ config = DEFAULT_CONFIG
  /\ agents = setupAgents(config)
  /\ \E extra \in {{}} \cup { {w} : w \in { u \in UserWorkflows : AllStatic(u) } } :
       workflows = RegisterAll(RegisterAll(EmptyMap, BuiltInWorkflows), extra)
  /\ approver = "builtin"
  /\ files = EmptyMap
  /\ create = NoCreate
  /\ InitIdle
  /\ InitRuns({1})

SpecFair == InitFair /\ [][Next]_vars /\ WF_vars(Next)

\* ------------------------------------ registerWorkflow and createWorkflow calls
\* everything the runs own
runVars == << request, pc, workflow, workflowOptions, currentStepId, context, results,
              outcome, evals, calls, tasks, completed, skipped, approvals, answers,
              gitStatus, invoked,
              nextCalls, hookCalls, hookFailed >>

Definition(id, name, description, steps) ==
  [id |-> id, name |-> name, description |-> description, steps |-> steps]

\* the definitions callers pass to registerWorkflow and createWorkflow: two
\* under the same id, one with a dangling and one with a computed next, and one
\* for each way of being malformed
StoreInputs ==
  { Definition("alpha", "Alpha", "first definition", Chain(1).steps),
    Definition("alpha", "Alpha II", "second definition", Chain(2).steps),
    Definition("beta", "Beta", "next names no step",
               << MkStep(StepId(1), StepName(1), TypeAt(1), NoCondition, Static(GhostStep)) >>),
    Definition("gamma", "Gamma", "condition and computed next",
               << MkStep(StepId(1), StepName(1), TypeAt(1), Never,
                         Computed(StepId(1), StepId(2), NoStep)),
                  ChainStep(2, 2) >>),
    Definition("", "No Id", "empty id", Chain(1).steps),
    Definition("no-name", "", "empty name", Chain(1).steps),
    Definition("no-description", "No Description", "", Chain(1).steps),
    Definition("no-steps", "No Steps", "zero steps", <<>>) }

\* slip: the length test is lost, a definition without steps passes
IsInvalidIgnoringSteps(w) == w.id = "" \/ w.name = "" \/ w.description = ""

\* !workflow.id || !workflow.name || !workflow.description || !workflow.steps
\*   || workflow.steps.length === 0
IsInvalid(w) == w.id = "" \/ w.name = "" \/ w.description = "" \/ Len(w.steps) = 0

\* JSON.stringify(workflow): a function-valued condition or next is left out
toJSON(w) ==
  [w EXCEPT !.steps =
     [i \in 1..Len(w.steps) |->
        [w.steps[i] EXCEPT !.condition = NoCondition,
                           !.next = IF w.steps[i].next.kind = "computed"
                                      THEN NoNext ELSE w.steps[i].next]]]

\* registerWorkflow(w), called by any importer of the module
CallRegisterWorkflow ==
  /\ \E w \in StoreInputs :
       /\ workflows' = registerWorkflow(workflows, w)
       /\ create' = IF create.outcome \in {"pending", "returned", "io-error"}
                         /\ create.workflow.id = w.id
                      THEN [create EXCEPT !.overwritten = TRUE] ELSE create
  /\ UNCHANGED << config, agents, approver, files, runVars, cancelRequested, boot, orch >>

\* createWorkflow lines 417-431: validate, register, call fs.mkdir
CreateStart ==
  /\ create.pc = "idle"
  /\ \E w \in StoreInputs :
       IF IsInvalid(w)
         THEN /\ create' = [pc |-> "idle", workflow |-> w, outcome |-> "invalid",
                            overwritten |-> FALSE]
              /\ UNCHANGED workflows
         ELSE /\ workflows' = registerWorkflow(workflows, w)
              /\ create' = [pc |-> "mkdir", workflow |-> w, outcome |-> "pending",
                            overwritten |-> FALSE]
  /\ UNCHANGED << config, agents, approver, files, runVars, cancelRequested, boot, orch >>

\* createWorkflow lines 431-434: fs.mkdir settles; call fs.writeFile, or rethrow
MkdirSettled ==
  /\ create.pc = "mkdir"
  /\ \E mkdir \in GitOutcomes :
       create' = IF mkdir = "fail"
                   THEN [create EXCEPT !.pc = "idle", !.outcome = "io-error"]
                   ELSE [create EXCEPT !.pc = "write"]
  /\ UNCHANGED << config, agents, workflows, approver, files, runVars, cancelRequested, boot, orch >>

\* createWorkflow lines 434-442: fs.writeFile settles; return the workflow, or rethrow
WriteSettled ==
  /\ create.pc = "write"
  /\ \E write \in GitOutcomes :
       IF write = "fail"
         THEN /\ create' = [create EXCEPT !.pc = "idle", !.outcome = "io-error"]
              /\ UNCHANGED files
         ELSE /\ create' = [create EXCEPT !.pc = "idle", !.outcome = "returned"]
              /\ files' = Put(files, create.workflow.id, toJSON(create.workflow))
  /\ UNCHANGED << config, agents, workflows, approver, runVars, cancelRequested, boot, orch >>

\* after loadBuiltInWorkflows, no run requested
InitStore ==
  /\ config = DEFAULT_CONFIG
  /\ agents = setupAgents(config)
  /\ workflows = RegisterAll(EmptyMap, BuiltInWorkflows)
  /\ approver = "builtin"
  /\ files = EmptyMap
  /\ create = NoCreate
  /\ InitIdle
  /\ InitRuns({})

NextStore ==
  \/ CallRegisterWorkflow
  \/ CreateStart
  \/ MkdirSettled
  \/ WriteSettled

SpecStore == InitStore /\ [][NextStore]_vars

\* ------------------------------------------------------ initializeWorkflows
\* an entry of the workflows directory: a name, whether it ends in .json,
\* whether JSON.parse accepts its content, and what the content parses to
DirFile(name, json, parses, w) == [name |-> name, json |-> json, parses |-> parses, workflow |-> w]

DirFiles ==
  { DirFile("alpha.json", TRUE, TRUE, Definition("alpha", "Alpha", "first definition", Chain(1).steps)),
    DirFile("delta.json", TRUE, TRUE, Definition("delta", "Delta", "another definition", Chain(2).steps)),
    DirFile("broken.json", TRUE, FALSE, NoWorkflow),
    DirFile("notes.txt", FALSE, FALSE, NoWorkflow) }

\* what fs.readdir can list: any of the files, each once, in any order
Listings ==
  { l \in UNION { [1..n -> DirFiles] : n \in 0..Cardinality(DirFiles) } :
      \A i, j \in DOMAIN l : l[i] = l[j] => i = j }

\* lines 37-48: loadBuiltInWorkflows, then fs.readdir settles
BootStart ==
  /\ boot.pc = "idle"
  /\ workflows' = RegisterAll(workflows, BuiltInWorkflows)
  /\ \E readdir \in GitOutcomes :
       boot' = IF readdir = "fail"
                 THEN [boot EXCEPT !.pc = "mkdir", !.ioError = TRUE]
                 ELSE [boot EXCEPT !.pc = "read", !.index = 1]
  /\ UNCHANGED << config, agents, approver, files, create, runVars, cancelRequested, orch >>

\* lines 50-58: one iteration of the loop over the listing; a rejected
\* readFile or a throwing JSON.parse leaves the loop for the catch of line 59
BootFile ==
  /\ boot.pc = "read"
  /\ boot.index <= Len(boot.listing)
  /\ LET file == boot.listing[boot.index]
     IN IF ~file.json
          THEN /\ boot' = [boot EXCEPT !.index = boot.index + 1]
               /\ UNCHANGED workflows
          ELSE \E readFile \in GitOutcomes :
                 IF readFile = "fail"
                   THEN /\ boot' = [boot EXCEPT !.pc = "mkdir", !.ioError = TRUE]
                        /\ UNCHANGED workflows
                 ELSE IF ~file.parses
                   THEN /\ boot' = [boot EXCEPT !.pc = "mkdir"]
                        /\ UNCHANGED workflows
                 ELSE /\ workflows' = registerWorkflow(workflows, file.workflow)
                      /\ boot' = [boot EXCEPT !.index = boot.index + 1]
  /\ UNCHANGED << config, agents, approver, files, create, runVars, cancelRequested, orch >>

\* the loop has gone through the listing: initializeWorkflows returns
BootListed ==
  /\ boot.pc = "read"
  /\ boot.index > Len(boot.listing)
  /\ boot' = [boot EXCEPT !.pc = "done"]
  /\ UNCHANGED << config, agents, workflows, approver, files, create, runVars,
                  cancelRequested, orch >>

\* lines 59-65: the inner catch calls fs.mkdir without logging; when that
\* rejects, the outer catch logs the error; either way the function returns
BootMkdir ==
  /\ boot.pc = "mkdir"
  /\ \E mkdir \in GitOutcomes :
       boot' = [boot EXCEPT !.pc = "done", !.reported = (mkdir = "fail"),
                            !.ioError = boot.ioError \/ mkdir = "fail"]
  /\ UNCHANGED << config, agents, workflows, approver, files, create, runVars,
                  cancelRequested, orch >>

\* the process starts: nothing registered, the directory holds some listing
InitBoot ==
  /\ config = DEFAULT_CONFIG
  /\ agents = setupAgents(config)
  /\ workflows = EmptyMap
  /\ approver = "builtin"
  /\ files = EmptyMap
  /\ create = NoCreate
  /\ \E l \in Listings : boot = [NoBoot EXCEPT !.pc = "idle", !.listing = l]
  /\ orch = NoOrch
  /\ InitRuns({})

NextBoot ==
  \/ BootStart
  \/ BootFile
  \/ BootListed
  \/ BootMkdir

SpecBoot == InitBoot /\ [][NextBoot]_vars

\* --------------------------------------------- runs that are given an input
\* a user workflow whose task templates carry input fields; the second step
\* runs only when the first succeeded
Templated ==
  [id |-> "templated", name |-> "Templated", description |-> "steps with template inputs",
   steps |-> << [MkStep("t1", "Generate", "code-generation", NoCondition, Static("t2"))
                   EXCEPT !.input = ("file" :> "template.ts") @@ ("language" :> "ts")],
                [MkStep("t2", "Review", "code-review", Succeeded("t1"), NoNext)
                   EXCEPT !.input = ("mode" :> "lenient")] >>]

InitInput ==
  /\ config \in ConfigChoices
  /\ agents = setupAgents(config)
  /\ workflows = RegisterAll(EmptyMap, BuiltInWorkflows \cup {Templated})
  /\ approver \in {"builtin", "user"}
  /\ files = EmptyMap
  /\ create = NoCreate
  /\ InitIdle
  /\ InitRuns({1})

NextInput ==
  \E r \in Runs :
    \/ StartWithInput(r)
    \/ Analyzed(r)
    \/ LoopExit(r)
    \/ SkipStep(r)
    \/ DispatchStep(r)
    \/ TaskSettled(r)
    \/ ApprovalAnswered(r)
    \/ CommitSettled(r)
    \/ PushSettled(r)

SpecInput == InitInput /\ [][NextInput]_vars

\* ------------------------------------------------------ two concurrent runs
\* runWorkflow(workflowId, input, { codebaseDir }), as the chat calls it:
\* autoCommit and requireApproval come from the configuration
StartFromChat(r) == StartCall(r, {Input("file" :> "main.ts")}, {EmptyMap})

\* two chat requests are about to be made
InitTwo ==
  /\ config \in ConfigChoices
  /\ agents = setupAgents(config)
  /\ workflows = RegisterAll(EmptyMap, BuiltInWorkflows \cup {Templated})
  /\ approver = "builtin"
  /\ files = EmptyMap
  /\ create = NoCreate
  /\ InitIdle
  /\ InitRuns(Runs)

NextTwo ==
  \E r \in Runs :
    \/ StartFromChat(r)
    \/ Analyzed(r)
    \/ LoopExit(r)
    \/ SkipStep(r)
    \/ DispatchStep(r)
    \/ TaskSettled(r)
    \/ ApprovalAnswered(r)
    \/ CommitSettled(r)
    \/ PushSettled(r)

SpecTwo == InitTwo /\ [][NextTwo]_vars

\* ------------------------------------------------- a caller wanting to cancel
\* the caller of a run in progress decides to cancel it; runWorkflow takes
\* (workflowId, input, options) and reads no signal, so the wish is only noted
RequestCancel(r) ==
  /\ pc[r] \notin {"off", "idle", "done", "failed"}
  /\ ~cancelRequested[r]
  /\ cancelRequested' = Upd(cancelRequested, r, TRUE)
  /\ UNCHANGED << config, agents, workflows, approver, files, create, boot, orch, runVars >>

\* one chat request is about to be made
InitCancel ==
  /\ config \in ConfigChoices
  /\ agents = setupAgents(config)
  /\ workflows = RegisterAll(EmptyMap, BuiltInWorkflows \cup {Templated})
  /\ approver \in {"builtin", "user"}
  /\ files = EmptyMap
  /\ create = NoCreate
  /\ InitIdle
  /\ InitRuns({1})

NextCancel ==
  \E r \in Runs :
    \/ StartFromChat(r)
    \/ RequestCancel(r)
    \/ Analyzed(r)
    \/ LoopExit(r)
    \/ SkipStep(r)
    \/ DispatchStep(r)
    \/ TaskSettled(r)
    \/ ApprovalAnswered(r)
    \/ CommitSettled(r)
    \/ PushSettled(r)

SpecCancel == InitCancel /\ [][NextCancel]_vars

\* -------------------------------------------------------- orchestrateAgents
\* the tasks a caller lists: two ids, one of them used twice, and a task of a
\* type the switch of executeTask does not know
OrchTask(id, type) == [id |-> id, type |-> type]

OrchTasks ==
  { OrchTask("a", "code-generation"), OrchTask("b", "code-review"),
    OrchTask("a", "testing"), OrchTask("c", "deploy") }

TaskLists == UNION { [1..n -> OrchTasks] : n \in 0..MaxTasks }

\* slip: a rejected executeTask is swallowed and the loop goes on
OrchSettledContinues ==
  /\ orch.pc = "task"
  /\ \E o \in executeTask(orch.tasks[orch.index].type, agents) :
       IF o.kind = "throw"
         THEN orch' = [orch EXCEPT !.pc = "loop", !.index = orch.index + 1]
         ELSE orch' = [orch EXCEPT
                         !.pc = "loop",
                         !.index = orch.index + 1,
                         !.results = Append(orch.results, o.result),
                         !.context = Put(orch.context, orch.tasks[orch.index].id, o.result),
                         !.replies = Append(orch.replies, [index |-> orch.index, result |-> o.result])]
  /\ UNCHANGED << config, agents, workflows, approver, files, create, runVars,
                  cancelRequested, boot >>

\* lines 119-123: executeTask settles; push the result, set context.results[task.id];
\* a rejection leaves orchestrateAgents at once
OrchSettled ==
  /\ orch.pc = "task"
  /\ \E o \in executeTask(orch.tasks[orch.index].type, agents) :
       IF o.kind = "throw"
         THEN orch' = [orch EXCEPT !.pc = "failed", !.error = o.error]
         ELSE orch' = [orch EXCEPT
                         !.pc = "loop",
                         !.index = orch.index + 1,
                         !.results = Append(orch.results, o.result),
                         !.context = Put(orch.context, orch.tasks[orch.index].id, o.result),
                         !.replies = Append(orch.replies, [index |-> orch.index, result |-> o.result])]
  /\ UNCHANGED << config, agents, workflows, approver, files, create, runVars,
                  cancelRequested, boot >>

\* lines 115-116: the next task of the list is passed to executeTask
OrchDispatch ==
  /\ orch.pc = "loop"
  /\ orch.index <= Len(orch.tasks)
  /\ orch' = [orch EXCEPT !.pc = "task",
                          !.calls = Append(orch.calls, [index |-> orch.index, ctx |-> orch.context])]
  /\ UNCHANGED << config, agents, workflows, approver, files, create, runVars,
                  cancelRequested, boot >>

\* line 125: the list is exhausted, the results are returned
OrchReturn ==
  /\ orch.pc = "loop"
  /\ orch.index > Len(orch.tasks)
  /\ orch' = [orch EXCEPT !.pc = "done"]
  /\ UNCHANGED << config, agents, workflows, approver, files, create, runVars,
                  cancelRequested, boot >>

\* orchestrateAgents(tasks, context) has just been called with a fresh context
InitOrch ==
  /\ config \in ConfigChoices
  /\ agents = setupAgents(config)
  /\ workflows = RegisterAll(EmptyMap, BuiltInWorkflows)
  /\ approver = "builtin"
  /\ files = EmptyMap
  /\ create = NoCreate
  /\ boot = NoBoot
  /\ \E l \in TaskLists : orch = [NoOrch EXCEPT !.pc = "loop", !.tasks = l, !.index = 1]
  /\ InitRuns({})

NextOrch ==
  \/ OrchDispatch
  \/ OrchSettled
  \/ OrchReturn

SpecOrch == InitOrch /\ [][NextOrch]_vars

\* ------------------------------------------------------------ properties
\* the step the loop of run r is at
Current(r) == workflow[r].steps[Find(workflow[r].steps, currentStepId[r])]

\* everything run r owns
RunVars(r) ==
  << pc[r], workflow[r], workflowOptions[r], currentStepId[r], context[r], results[r],
     outcome[r], evals[r], calls[r], completed[r], skipped[r], approvals[r], answers[r],
     nextCalls[r], hookCalls[r], hookFailed[r], gitStatus[r], invoked[r] >>

IdsOf(done) == [i \in 1..Len(done) |-> done[i].id]
Last(seq) == seq[Len(seq)]
Failed(e) == ~e.result.success
Denied(r) == \E k \in 1..Len(answers[r]) : ~answers[r][k]

\* no conditions, every step points at the next declared one, the last at none
IsLinear(w) ==
  /\ Len(w.steps) >= 1
  /\ \A i \in 1..Len(w.steps) :
       /\ w.steps[i].condition.kind = "none"
       /\ w.steps[i].next = IF i < Len(w.steps) THEN Static(w.steps[i + 1].id) ELSE NoNext
       /\ \A j \in 1..Len(w.steps) : w.steps[j].id = w.steps[i].id => j = i

AllSucceeded(r) == \A k \in 1..Len(completed[r]) : completed[r][k].result.success

\* C1: a finished run of a linear N-step workflow whose workers all succeeded
\* dispatched the N steps in declaration order, each once, and returned N
\* entries in that order
C1_LinearRunVisitsAllInOrder ==
  \A r \in Runs :
    (pc[r] = "done" /\ IsLinear(workflow[r]) /\ AllSucceeded(r)) =>
      LET st == workflow[r].steps
      IN /\ calls[r] = [i \in 1..Len(st) |-> st[i].id]
         /\ outcome[r].kind = "returned"
         /\ outcome[r].value = [i \in 1..Len(st) |-> [step |-> st[i].name, result |-> OkResult]]

C1_Witness ==
  \E r \in Runs :
    /\ pc[r] = "done" /\ IsLinear(workflow[r]) /\ AllSucceeded(r)
    /\ workflow[r].id = "chain"
    /\ Len(outcome[r].value) = 3

\* C2: a step whose condition is false on the current context is not
\* dispatched (no executeTask call, nothing added to context.results or to
\* the result list, no approval request), its next is resolved all the same
\* and the loop goes on from the resolved step
C2_FalseConditionSkipsButResolvesNext ==
  [][\A r \in Runs :
       ( /\ pc[r] = "loop"
         /\ currentStepId[r] # NoStep
         /\ Find(workflow[r].steps, currentStepId[r]) # 0
         /\ Current(r).condition.kind # "none"
         /\ ~ConditionHolds(Current(r).condition, context[r])
         /\ RunVars(r)' # RunVars(r) )
       => /\ calls'[r] = calls[r]
          /\ completed'[r] = completed[r]
          /\ context'[r] = context[r]
          /\ results'[r] = results[r]
          /\ approvals'[r] = approvals[r]
          /\ pc'[r] = "loop"
          /\ currentStepId'[r] = NextStepId(Current(r), context[r])]_vars

C2_Witness ==
  \E r \in Runs :
    /\ pc[r] = "done"
    /\ skipped[r] = <<"s2">>
    /\ calls[r] = <<"s1", "s3">>
    /\ Len(outcome[r].value) = 2

\* the last Result settled for step id among the dispatches done
LastResultOf(done, id) ==
  done[CHOOSE j \in 1..Len(done) :
         /\ done[j].id = id
         /\ \A k \in (j + 1)..Len(done) : done[k].id # id].result

\* C3: the context handed to a computed next holds, for every step dispatched
\* so far, that step's Result, the Result of the step whose next is being
\* resolved included
C3_ComputedNextSeesAllResults ==
  \A r \in Runs : \A k \in 1..Len(nextCalls[r]) :
    LET c == nextCalls[r][k]
    IN /\ \A j \in 1..Len(c.done) :
            /\ c.done[j].id \in DOMAIN c.ctx
            /\ c.ctx[c.done[j].id] = LastResultOf(c.done, c.done[j].id)
       /\ c.dispatched =>
            /\ Len(c.done) > 0
            /\ Last(c.done).id = c.step
            /\ c.step \in DOMAIN c.ctx
            /\ c.ctx[c.step] = Last(c.done).result

C3_Witness ==
  \E r \in Runs : \E k \in 1..Len(nextCalls[r]) :
    /\ nextCalls[r][k].dispatched
    /\ Len(nextCalls[r][k].done) >= 2

C6_NoApprovalWithoutOption ==
  [][\A r \in Runs :
       ~workflowOptions'[r].requireApproval =>
         /\ approvals'[r] = <<>>
         /\ answers'[r] = <<>>
         /\ pc'[r] # "approval"
         /\ (pc[r] = "task" /\ Len(completed'[r]) > Len(completed[r])) =>
              /\ pc'[r] = "loop"
              /\ currentStepId'[r] = NextStepId(Current(r), context'[r])]_vars

C6_Witness ==
  \E r \in Runs :
    /\ ~workflowOptions[r].requireApproval
    /\ pc[r] = "done"
    /\ Len(completed[r]) = 3
    /\ Failed(completed[r][1])
    /\ Failed(completed[r][3])

\* the step of the latest executeTask call of run r
LastCalled(r) == workflow[r].steps[Find(workflow[r].steps, Last(calls[r]))]

\* C7: once executeTask has settled for a task whose type has no registered
\* agent, a failed Result with an error is recorded for the step and the run
\* has not thrown
C7_UnregisteredYieldsFailedResult ==
  \A r \in Runs :
    ( /\ calls[r] # <<>>
      /\ pc[r] # "task"
      /\ AgentKey(LastCalled(r).type) \notin agents )
    => /\ outcome[r].kind # "thrown"
       /\ Len(completed[r]) = Len(calls[r])
       /\ Failed(Last(completed[r]))
       /\ Last(completed[r]).result.error # ""

\* C8: however a run ends, once a step Result has been recorded the caller
\* receives the Results recorded so far
C8_PartialResultsReturned ==
  \A r \in Runs :
    (pc[r] \in {"done", "failed"} /\ Len(results[r]) > 0) =>
      /\ outcome[r].kind = "returned"
      /\ outcome[r].value = results[r]

C10_HookFailureKeepsOutcome ==
  \A r \in Runs :
    hookFailed[r] =>
      /\ pc[r] = "done"
      /\ outcome[r] = Returned(results[r])
      /\ Len(results[r]) = Len(completed[r])
      /\ \A i \in 1..Len(results[r]) : results[r][i].result = completed[r][i].result

C10_Witness ==
  \E r \in Runs :
    /\ hookFailed[r]
    /\ hookCalls[r] = <<"commit", "push">>
    /\ Len(outcome[r].value) >= 2

\* a definition with an id, a name, a description and at least one step
WellFormed(w) == w.id # "" /\ w.name # "" /\ w.description # "" /\ Len(w.steps) >= 1

\* C11: a workflow with an empty id, name or description, or without steps,
\* is never registered: the store holds well-formed definitions only
C11_OnlyValidDefinitionsRegistered ==
  \A id \in DOMAIN workflows : WellFormed(workflows[id])

\* C12: once createWorkflow(w) has returned, and nothing was registered under
\* w.id since, getWorkflow(w.id) finds a workflow with w's id, name,
\* description and number of steps
C12_CreateThenGet ==
  (create.outcome = "returned" /\ ~create.overwritten) =>
    LET w == create.workflow
        got == getWorkflow(workflows, w.id)
    IN /\ got.found
       /\ got.workflow.id = w.id
       /\ got.workflow.name = w.name
       /\ got.workflow.description = w.description
       /\ Len(got.workflow.steps) = Len(w.steps)

C12_Witness ==
  /\ create.outcome = "returned"
  /\ ~create.overwritten
  /\ create.workflow.name = "Alpha II"
  /\ "alpha" \in DOMAIN files

\* C13: a run requested for an id the store does not hold has thrown the
\* not-found error and did nothing else: no step evaluated or dispatched, no
\* approval asked, no commit or push
C13_UnknownWorkflowDoesNotStart ==
  \A r \in Runs :
    (pc[r] \notin {"off", "idle"} /\ request[r].workflowId \notin DOMAIN workflows) =>
      /\ pc[r] = "failed"
      /\ outcome[r] = Thrown("Workflow not found")
      /\ evals[r] = 0
      /\ calls[r] = <<>>
      /\ skipped[r] = <<>>
      /\ results[r] = <<>>
      /\ approvals[r] = <<>>
      /\ hookCalls[r] = <<>>

C13_Witness ==
  \E r \in Runs :
    /\ pc[r] = "failed"
    /\ request[r].workflowId = GhostWorkflow

\* what the function `ctx => ctx.results[on]?.success ? id : else` returns
Invoke(next, ctx) ==
  IF next.on \in DOMAIN ctx /\ ctx[next.on].success THEN next.id ELSE next.else

\* run r resolves the next of its current step in this step of the behaviour
ResolvesNext(r) ==
  \/ pc[r] \in {"task", "approval"} /\ pc'[r] = "loop"
  \/ pc[r] = "loop" /\ pc'[r] = "loop" /\ evals'[r] # evals[r]

\* C14: when the next of a step is resolved, a computed next is invoked on
\* the current context and what it returns becomes the current step id, a
\* static next becomes the current step id as it is, and without a next the
\* loop ends and the run completes; a finished, never refused run of the
\* branching workflow dispatched s1, s2 and the selected one of s3 and s4 only
C14_NextFollowsSelector ==
  [][\A r \in Runs :
       /\ ResolvesNext(r) =>
            LET next == Current(r).next
            IN /\ next.kind = "static" =>
                    currentStepId'[r] = next.id /\ nextCalls'[r] = nextCalls[r]
               /\ next.kind = "computed" =>
                    /\ Len(nextCalls'[r]) = Len(nextCalls[r]) + 1
                    /\ Last(nextCalls'[r]).step = Current(r).id
                    /\ Last(nextCalls'[r]).ctx = context'[r]
                    /\ currentStepId'[r] = Invoke(next, context'[r])
               /\ next.kind = "none" =>
                    currentStepId'[r] = NoStep /\ nextCalls'[r] = nextCalls[r]
       /\ (pc[r] = "loop" /\ currentStepId[r] = NoStep /\ RunVars(r)' # RunVars(r)) =>
            /\ pc'[r] \in {"commit", "done"}
            /\ outcome'[r].kind # "thrown"
            /\ calls'[r] = calls[r]
       /\ (pc'[r] = "done" /\ workflow'[r].id = "branching" /\ ~Denied(r)') =>
            /\ Len(outcome'[r].value) = 3
            /\ calls'[r] = IF completed'[r][1].result.success
                             THEN <<"s1", "s2", "s3">> ELSE <<"s1", "s2", "s4">>]_vars

C14_Witness ==
  \E r \in Runs :
    /\ pc[r] = "done"
    /\ workflow[r].id = "branching"
    /\ calls[r] = <<"s1", "s2", "s3">>
    /\ Len(outcome[r].value) = 3
    /\ Len(nextCalls[r]) = 1

\* C15: a step's condition is checked, and the step dispatched, only when
\* every earlier dispatch of the run has its Result both in context.results
\* and in the result list; never more than one executeTask call is unsettled
C15_StrictlySequential ==
  [][\A r \in Runs :
       /\ (Len(calls'[r]) - Len(completed'[r])) \in {0, 1}
       /\ pc'[r] \in {"loop", "approval", "commit", "push", "done"} =>
            Len(calls'[r]) = Len(completed'[r])
       /\ (calls'[r] # calls[r] \/ skipped'[r] # skipped[r]) =>
            /\ Len(calls[r]) = Len(completed[r])
            /\ Len(results[r]) = Len(completed[r])
            /\ \A k \in 1..Len(completed[r]) :
                 /\ calls[r][k] = completed[r][k].id
                 /\ results[r][k].result = completed[r][k].result
                 /\ completed[r][k].id \in DOMAIN context[r]
            /\ completed[r] # <<>> =>
                 context[r][Last(completed[r]).id] = Last(completed[r]).result]_vars

C15_Witness ==
  \E r \in Runs :
    /\ pc[r] = "task"
    /\ Len(calls[r]) = 3
    /\ Len(completed[r]) = 2
    /\ skipped[r] # <<>>

\* C16: an entry of context.results, once written, is neither overwritten
\* nor removed, and the map has as many entries as executeTask calls settled
C16_ContextAppendOnly ==
  [][\A r \in Runs :
       /\ \A id \in DOMAIN context[r] :
            id \in DOMAIN context'[r] /\ context'[r][id] = context[r][id]
       /\ Cardinality(DOMAIN context'[r]) = Len(completed'[r])]_vars

\* C17: in every workflow of the store, a static next names a step of the
\* same workflow
C17_StaticNextResolves ==
  \A id \in DOMAIN workflows :
    LET st == workflows[id].steps
    IN \A i \in 1..Len(st) :
         st[i].next.kind = "static" => \E j \in 1..Len(st) : st[j].id = st[i].next.id

\* C18: when the current step id matches no step, the run stops without an
\* error: nothing more is dispatched, the results collected are what the
\* caller gets, and gitCommit is called exactly when autoCommit is set
C18_UnknownNextStopsSilently ==
  [][\A r \in Runs :
       /\ ( /\ pc[r] = "loop"
            /\ currentStepId[r] # NoStep
            /\ Find(workflow[r].steps, currentStepId[r]) = 0
            /\ RunVars(r)' # RunVars(r) )
          => /\ outcome'[r].kind # "thrown"
             /\ calls'[r] = calls[r]
             /\ results'[r] = results[r]
             /\ IF workflowOptions[r].autoCommit
                  THEN pc'[r] = "commit" /\ hookCalls'[r] = Append(hookCalls[r], "commit")
                  ELSE pc'[r] = "done" /\ hookCalls'[r] = hookCalls[r]
       /\ ( /\ pc'[r] \in {"commit", "push", "done", "failed"}
            /\ currentStepId'[r] # NoStep
            /\ Find(workflow'[r].steps, currentStepId'[r]) = 0 )
          => /\ pc'[r] # "failed"
             /\ calls'[r] = calls[r]
             /\ pc'[r] = "done" => outcome'[r] = Returned(results'[r])]_vars

C18_Witness ==
  \E r \in Runs :
    /\ pc[r] = "done"
    /\ currentStepId[r] = GhostStep
    /\ Len(outcome[r].value) >= 2
    /\ hookCalls[r] = <<"commit", "push">>

\* the step of run r the k-th executeTask call was made for
StepOfTask(r, k) == workflow[r].steps[Find(workflow[r].steps, tasks[r][k].id)]

\* C19: the input of every dispatched task has the keys of the step's
\* template and of the run's input, the run input's value for each key of the
\* run input, the template's value for every other key; dispatching changes
\* neither the stored workflow nor the one the run holds
C19_TaskInputIsShallowMerge ==
  [][\A r \in Runs :
       tasks'[r] # tasks[r] =>
         LET t == Last(tasks'[r])
             template == Current(r).input
             input == request[r].input.fields
         IN /\ t.id = Current(r).id
            /\ DOMAIN t.input = (DOMAIN template) \cup (DOMAIN input)
            /\ \A key \in DOMAIN input : t.input[key] = input[key]
            /\ \A key \in (DOMAIN template) \ (DOMAIN input) : t.input[key] = template[key]
            /\ workflows' = workflows
            /\ workflow'[r] = workflow[r]
            /\ workflows[workflow[r].id] = workflow[r]]_vars

C19_Witness ==
  \E r \in Runs : \E k \in 1..Len(tasks[r]) :
    /\ tasks[r][k].id = "t1"
    /\ tasks[r][k].input = ("file" :> "main.ts") @@ ("language" :> "ts") @@ ("mode" :> "strict")
    /\ StepOfTask(r, k).input = ("file" :> "template.ts") @@ ("language" :> "ts")
    /\ request[r].input.fields = ("file" :> "main.ts") @@ ("mode" :> "strict")

\* C20: when the agent of a dispatched step throws instead of returning a
\* Result, runWorkflow rejects with that error, records no Result for the
\* step, dispatches nothing further and calls neither gitCommit nor gitPush
C20_WorkerExceptionFailsRun ==
  [][\A r \in Runs :
       /\ ( /\ pc[r] = "task"
            /\ AgentKey(Current(r).type) \in agents
            /\ RunVars(r)' # RunVars(r)
            /\ completed'[r] = completed[r] )
          => /\ pc'[r] = "failed"
             /\ outcome'[r] = Thrown("worker threw")
             /\ results'[r] = results[r]
             /\ context'[r] = context[r]
             /\ calls'[r] = calls[r]
             /\ hookCalls'[r] = <<>>
       /\ pc[r] = "failed" => RunVars(r)' = RunVars(r)]_vars

C20_Witness ==
  \E r \in Runs :
    /\ pc[r] = "failed"
    /\ outcome[r] = Thrown("worker threw")
    /\ workflowOptions[r].autoCommit
    /\ Len(calls[r]) = 3
    /\ Len(completed[r]) = 2
    /\ Len(results[r]) = 2
    /\ hookCalls[r] = <<>>

\* C21: once initializeWorkflows has returned, with no file system call
\* having failed, the built-in workflows are registered, every well-formed
\* definition file of the directory is registered wherever it stands in the
\* listing, and a malformed file in the listing was reported
C21_MalformedFileSkipped ==
  (boot.pc = "done" /\ ~boot.ioError) =>
    /\ \A w \in BuiltInWorkflows : w.id \in DOMAIN workflows /\ workflows[w.id] = w
    /\ \A i \in DOMAIN boot.listing :
         LET file == boot.listing[i]
         IN /\ (file.json /\ file.parses) =>
                 /\ file.workflow.id \in DOMAIN workflows
                 /\ workflows[file.workflow.id] = file.workflow
            /\ (file.json /\ ~file.parses) => boot.reported

\* everything run r owns, its arguments and dispatched tasks included
OwnState(r) == << RunVars(r), request[r], tasks[r] >>

\* the result list the worker replies given to run r amount to
ResultsOf(r) ==
  [k \in 1..Len(completed[r]) |->
     [step |-> workflow[r].steps[Find(workflow[r].steps, completed[r][k].id)].name,
      result |-> completed[r][k].result]]

\* C22: with two runs interleaved at their awaits, a step of one run changes
\* nothing the other run owns; the context and the result list of a run hold
\* what its own workers replied and nothing else, and a finished run returns
\* the list its own replies amount to
C22_RunsShareNoMutableState ==
  [][\A r \in Runs :
       /\ \A other \in Runs \ {r} :
            OwnState(r)' # OwnState(r) => OwnState(other)' = OwnState(other)
       /\ Len(results'[r]) = Len(completed'[r])
       /\ results'[r] = ResultsOf(r)'
       /\ DOMAIN context'[r] = { completed'[r][k].id : k \in 1..Len(completed'[r]) }
       /\ \A id \in DOMAIN context'[r] : context'[r][id] = LastResultOf(completed'[r], id)
       /\ pc'[r] = "done" => outcome'[r] = Returned(ResultsOf(r)')]_vars

C22_Witness ==
  /\ pc[1] = "done" /\ pc[2] = "done"
  /\ workflow[1].id = workflow[2].id
  /\ Len(outcome[1].value) = 3 /\ Len(outcome[2].value) = 3
  /\ outcome[1].value[1].result.success
  /\ ~outcome[2].value[1].result.success

\* C23: once the caller has asked for a run to be cancelled, the step in
\* flight still settles and records its Result, and from the next step
\* boundary on no step is evaluated or dispatched
C23_CancelAtStepBoundary ==
  [][\A r \in Runs :
       /\ (cancelRequested[r] /\ pc[r] = "task" /\ RunVars(r)' # RunVars(r)) =>
            Len(completed'[r]) = Len(completed[r]) + 1 \/ pc'[r] = "failed"
       /\ (cancelRequested[r] /\ pc[r] \in {"loop", "approval"}) =>
            /\ calls'[r] = calls[r]
            /\ skipped'[r] = skipped[r]
            /\ evals'[r] = evals[r]]_vars

\* the worker each capability tag is dispatched to
FixedKey ==
  ("code-generation" :> "codeGeneration") @@ ("code-review" :> "codeReview") @@
  ("error-fixing" :> "errorFixing") @@ ("refactoring" :> "refactoring") @@
  ("testing" :> "testing") @@ ("langgraph" :> "langgraph")

\* the k-th executeTask call of run r called one agent, the one under the
\* fixed key of the task's type, and what it resolved to is that agent's reply
OneWorkerOnce(r, k) ==
  /\ k <= Len(invoked[r])
  /\ invoked[r][k].id = calls[r][k]
  /\ invoked[r][k].key = FixedKey[tasks[r][k].type]
  /\ k <= Len(completed[r]) =>
       /\ invoked[r][k].reply.kind = "result"
       /\ completed[r][k].result = invoked[r][k].reply.result
       /\ results[r][k].result = invoked[r][k].reply.result

\* C24 as stated: every executeTask call for a task of a known type calls
\* exactly one agent, the one of the fixed key, once, and resolves to its reply
C24_DispatchInvokesOneWorker ==
  \A r \in Runs :
    /\ Len(invoked[r]) <= Len(calls[r])
    /\ \A k \in 1..Len(calls[r]) :
         tasks[r][k].type \in DOMAIN FixedKey => OneWorkerOnce(r, k)

\* C24 amended: every executeTask call for a task of a known type whose agent
\* is registered calls exactly that agent, once, and resolves to its reply
\* unmodified; when no agent is registered under the key, none is called
C24_DispatchInvokesRegisteredWorker ==
  \A r \in Runs :
    /\ Len(invoked[r]) <= Len(calls[r])
    /\ \A k \in 1..Len(calls[r]) :
         tasks[r][k].type \in DOMAIN FixedKey =>
           IF FixedKey[tasks[r][k].type] \in agents
             THEN OneWorkerOnce(r, k)
             ELSE Len(invoked[r]) < k

C24_Witness ==
  \E r \in Runs :
    /\ Len(calls[r]) = 3
    /\ Len(invoked[r]) = 3
    /\ Len(completed[r]) = 3
    /\ invoked[r][2].key = "codeReview"
    /\ ~completed[r][2].result.success
    /\ completed[r][3].result.success

\* the step of run r that has id `id`
StepOf(r, id) == workflow[r].steps[Find(workflow[r].steps, id)]

RECURSIVE WalkEnds(_, _, _)
WalkEnds(w, id, fuel) ==
  IF id = NoStep \/ Find(w.steps, id) = 0 THEN TRUE
  ELSE IF fuel = 0 THEN FALSE
  ELSE WalkEnds(w, w.steps[Find(w.steps, id)].next.id, fuel - 1)

\* the static next-graph of w has no cycle
Acyclic(w) == \A i \in 1..Len(w.steps) : WalkEnds(w, w.steps[i].id, Len(w.steps))

\* the step ids run r has evaluated (dispatched or skipped)
Evaluated(r) ==
  { calls[r][k] : k \in 1..Len(calls[r]) } \cup { skipped[r][k] : k \in 1..Len(skipped[r]) }

\* C26: a run of a workflow whose nexts are all static and acyclic evaluates
\* each step at most once, records at most as many Results as there are
\* steps, and, every awaited call settling, terminates
C26_StaticAcyclicTerminates ==
  /\ [](\A r \in Runs :
          (pc[r] \notin {"off", "idle"} /\ outcome[r] # Thrown("Workflow not found")
             /\ AllStatic(workflow[r]) /\ Acyclic(workflow[r])) =>
            /\ Cardinality(Evaluated(r)) = Len(calls[r]) + Len(skipped[r])
            /\ evals[r] = Len(calls[r]) + Len(skipped[r])
            /\ evals[r] <= Len(workflow[r].steps)
            /\ Len(results[r]) <= Len(workflow[r].steps))
  /\ \A r \in Runs :
       (pc[r] \notin {"off", "idle"}) ~> (pc[r] \in {"done", "failed"}
                                         \/ ~AllStatic(workflow[r]) \/ ~Acyclic(workflow[r]))

C26_Witness ==
  \E r \in Runs :
    /\ pc[r] = "done"
    /\ AllStatic(workflow[r]) /\ Acyclic(workflow[r])
    /\ Len(workflow[r].steps) = 3
    /\ calls[r] = <<"s1", "s3">>
    /\ skipped[r] = <<"s2">>
    /\ Len(outcome[r].value) = 2
    /\ hookCalls[r] # <<>>

\* C27: gitPush is called only after gitCommit has returned: when gitCommit
\* throws (getStatus or a later git command failed) the run ends without a
\* gitPush call, and when gitCommit returns, also because the working tree
\* was clean, gitPush is called next
C27_PushOnlyAfterCommitReturned ==
  [][\A r \in Runs :
       /\ (pc[r] = "commit" /\ RunVars(r)' # RunVars(r)) =>
            /\ hookCalls[r] = <<"commit">>
            /\ gitStatus'[r] \in {"clean", "dirty", "fail"}
            /\ IF hookFailed'[r]
                 THEN hookCalls'[r] = hookCalls[r] /\ pc'[r] = "done"
                 ELSE hookCalls'[r] = <<"commit", "push">> /\ pc'[r] = "push"
            /\ gitStatus'[r] = "clean" => (~hookFailed'[r] /\ pc'[r] = "push")
            /\ gitStatus'[r] = "fail" => (hookFailed'[r] /\ pc'[r] = "done")
       /\ hookCalls'[r] \in {<<>>, <<"commit">>, <<"commit", "push">>}
       /\ (pc[r] # "commit") => (hookCalls'[r] = hookCalls[r] \/ hookCalls'[r] = <<"commit">>)]_vars

C27_Witness ==
  \E r \in Runs :
    /\ pc[r] = "done"
    /\ gitStatus[r] = "clean"
    /\ hookCalls[r] = <<"commit", "push">>
    /\ ~hookFailed[r]
    /\ Len(results[r]) >= 1

\* C28: createWorkflow validates, then registers, then persists: a
\* definition that fails validation changes neither the store nor the
\* directory; a valid one is registered before anything is written; when
\* mkdir or writeFile fails the call throws, nothing is written, and the
\* workflow stays registered, so getWorkflow returns it
C28_CreateNotAtomic ==
  [][/\ (create.pc = "idle" /\ create' # create /\ ~WellFormed(create'.workflow)) =>
          /\ create'.outcome = "invalid"
          /\ create'.pc = "idle"
          /\ workflows' = workflows
          /\ files' = files
     /\ (create.pc = "idle" /\ create'.pc = "mkdir") =>
          /\ WellFormed(create'.workflow)
          /\ getWorkflow(workflows', create'.workflow.id).found
          /\ getWorkflow(workflows', create'.workflow.id).workflow = create'.workflow
          /\ files' = files
     /\ (create.outcome = "pending" /\ create'.outcome = "io-error") =>
          /\ workflows' = workflows
          /\ files' = files
     /\ (create'.outcome = "io-error" /\ ~create'.overwritten) =>
          /\ getWorkflow(workflows', create'.workflow.id).found
          /\ getWorkflow(workflows', create'.workflow.id).workflow = create'.workflow]_vars

C28_Witness ==
  /\ create.pc = "idle"
  /\ create.outcome = "io-error"
  /\ ~create.overwritten
  /\ create.workflow.id = "gamma"
  /\ getWorkflow(workflows, "gamma").found
  /\ "gamma" \notin DOMAIN files

\* C29: with the built-in askForApproval every answer is true, so no run
\* stops at a failed step, with or without requireApproval: the loop is left
\* only when the current step id is empty or matches no step
C29_BuiltInApprovalNeverAborts ==
  [][approver = "builtin" =>
       \A r \in Runs :
         /\ \A k \in 1..Len(answers'[r]) : answers'[r][k]
         /\ (pc[r] \in {"task", "approval"} /\ RunVars(r)' # RunVars(r)) =>
              pc'[r] \in {"loop", "approval", "failed"}
         /\ pc'[r] \in {"commit", "push", "done"} =>
              \/ currentStepId'[r] = NoStep
              \/ Find(workflow'[r].steps, currentStepId'[r]) = 0]_vars

C29_Witness ==
  \E r \in Runs :
    /\ approver = "builtin"
    /\ pc[r] = "done"
    /\ workflowOptions[r].requireApproval
    /\ Len(calls[r]) = 3
    /\ approvals[r] = << calls[r][1], calls[r][2] >>
    /\ answers[r] = << TRUE, TRUE >>
    /\ currentStepId[r] = NoStep

\* the result of the last task before position k that has id `id`
EarlierResult(k, id) ==
  orch.replies[CHOOSE j \in 1..(k - 1) :
                 /\ orch.tasks[j].id = id
                 /\ \A m \in (j + 1)..(k - 1) : orch.tasks[m].id # id].result

\* context.results as the tasks before position k leave it
HoldsEarlierResults(ctx, k) ==
  /\ DOMAIN ctx = { orch.tasks[j].id : j \in 1..(k - 1) }
  /\ \A id \in DOMAIN ctx : ctx[id] = EarlierResult(k, id)

\* C30: orchestrateAgents dispatches its tasks in list order, one at a time;
\* the i-th result is the i-th task's; when a task is dispatched
\* context.results holds the result of every task before it; when a dispatch
\* throws, no later task is dispatched and context.results keeps the earlier results
C30_OrchestrateInOrder ==
  [][/\ (Len(orch'.calls) - Len(orch'.replies)) \in {0, 1}
     /\ \A k \in 1..Len(orch'.calls) :
          /\ orch'.calls[k].index = k
          /\ k <= Len(orch'.replies) => HoldsEarlierResults(orch.calls[k].ctx, k)'
     /\ Len(orch'.results) = Len(orch'.replies)
     /\ \A i \in 1..Len(orch'.results) :
          orch'.replies[i].index = i /\ orch'.results[i] = orch'.replies[i].result
     /\ orch'.pc \in {"loop", "done"} => HoldsEarlierResults(orch.context, orch.index)'
     /\ orch'.pc = "done" => Len(orch'.results) = Len(orch'.tasks)
     /\ orch'.pc = "failed" =>
          /\ Len(orch'.calls) = Len(orch'.results) + 1
          /\ HoldsEarlierResults(orch.context, Len(orch.calls))'
     /\ orch.pc = "failed" => orch' = orch]_vars

C30_Witness ==
  /\ orch.pc = "failed"
  /\ Len(orch.tasks) = 3
  /\ Len(orch.results) = 1
  /\ orch.tasks[1].id \in DOMAIN orch.context
  /\ orch.context[orch.tasks[1].id] = orch.results[1]
====
